---- MODULE Spec2Model ----
(***************************************************************************)
(* Model of the tasklist_mcp_client demonstration workflow                 *)
(* (sample_uml.rs: sample_uml_diagram) and of its identifier extractors    *)
(* (utils.rs: extract_diagram_id, extract_node_id), and of the error       *)
(* classification of the server's database layer (database/error.rs:       *)
(* DatabaseError::is_retryable, is_connection_error).                      *)
(*                                                                         *)
(* Texts are sequences of one-character strings, so that the regular       *)
(* expressions of utils.rs are computed character by character.            *)
(* For the comparison of two runs, twin holds the state of a second run of *)
(* sample_uml_diagram; it is NoTwin where one run alone is followed.       *)
(* Option<T> is a sequence of length at most one: None == <<>>,            *)
(* Some(x) == <<x>>.  A serde_json Value is a record tagged by its kind.   *)
(***************************************************************************)
EXTENDS Integers, Sequences, FiniteSets, TLC

VARIABLES state, awaiting, sent,
          result_delete_prev, result_delete_empty, result, result1, result2, result3,
          diagram_id, class1_id, class2_id,
          stdout, panic,
          input, text_out, diagram_out, node_out,
          twin,
          self, is_retryable_out, is_connection_error_out

wfvars == <<state, awaiting, sent,
            result_delete_prev, result_delete_empty, result, result1, result2, result3,
            diagram_id, class1_id, class2_id, stdout, panic>>
exvars == <<input, text_out, diagram_out, node_out>>
dbvars == <<self, is_retryable_out, is_connection_error_out>>
vars == <<wfvars, exvars, twin, dbvars>>

----------------------------------------------------------------------------
(* Option<T> *)

None == <<>>
Some(x) == <<x>>

----------------------------------------------------------------------------
(* serde_json::Value *)

JNull == [k |-> "null"]
JNum(n) == [k |-> "number", v |-> n]
JStr(s) == [k |-> "string", v |-> s]
JArr(a) == [k |-> "array", v |-> a]
JObj(f) == [k |-> "object", v |-> f]

(* A local that has not been bound yet. *)
Unset == [k |-> "unset"]

(* Value::get(&str): the member of an object, None for a missing key or a *)
(* value that is no object.                                               *)
Get(val, key) ==
    IF val.k = "object" /\ key \in DOMAIN val.v THEN Some(val.v[key]) ELSE None

(* Value::get(usize): the element of an array (0-based), None otherwise. *)
GetIdx(val, i) ==
    IF val.k = "array" /\ (i + 1) \in DOMAIN val.v THEN Some(val.v[i + 1]) ELSE None

(* Value::as_str *)
AsStr(val) == IF val.k = "string" THEN Some(val.v) ELSE None

(* value[key] and value[i]: Null where get would give None. *)
Index(val, key) == IF Get(val, key) = None THEN JNull ELSE Get(val, key)[1]
IndexIdx(val, i) == IF GetIdx(val, i) = None THEN JNull ELSE GetIdx(val, i)[1]

(* result.get("error") is Some(_) *)
HasError(val) == Get(val, "error") # None

(* result.get("result").and_then(|r| r.get("content")).and_then(|c| c.get(0)) *)
(*     .and_then(|item| item.get("text")).and_then(|t| t.as_str())            *)
text_msg(val) ==
    LET r == Get(val, "result")
        c == IF r = None THEN None ELSE Get(r[1], "content")
        item == IF c = None THEN None ELSE GetIdx(c[1], 0)
        t == IF item = None THEN None ELSE Get(item[1], "text")
    IN IF t = None THEN None ELSE AsStr(t[1])

(* result1["result"]["content"][0]["text"].as_str() *)
IndexText(val) ==
    AsStr(Index(IndexIdx(Index(Index(val, "result"), "content"), 0), "text"))

----------------------------------------------------------------------------
(* utils.rs: the two regular expressions, leftmost match, greedy capture *)

(* the literal parts of the two patterns *)
S_diagram_ID == <<"d", "i", "a", "g", "r", "a", "m", " ", "I", "D", ":", " ">>
S_with_ID == <<"w", "i", "t", "h", " ", "I", "D", ":", " ">>
S_ID == <<"I", "D", ":", " ">>

(* the character class [a-f0-9\-] *)
IdClass == {"a", "b", "c", "d", "e", "f",
            "0", "1", "2", "3", "4", "5", "6", "7", "8", "9", "-"}

(* the literal lit occurs in text at position i *)
LitAt(text, i, lit) ==
    /\ i >= 1
    /\ i + Len(lit) - 1 <= Len(text)
    /\ \A j \in 1..Len(lit) : text[i + j - 1] = lit[j]

(* ([a-f0-9\-]+) from position i: the length of the longest run of class *)
(* characters starting there (0 when there is none: no match)            *)
RECURSIVE RunLen(_, _)
RunLen(text, i) ==
    IF i <= Len(text) /\ text[i] \in IdClass THEN 1 + RunLen(text, i + 1) ELSE 0

(* lit ([a-f0-9\-]+) matched at position i: the capture's first position, *)
(* or 0 when the pattern does not match at i                              *)
CaptureAt(text, i, lit) ==
    IF LitAt(text, i, lit) /\ RunLen(text, i + Len(lit)) >= 1
    THEN i + Len(lit)
    ELSE 0

(* the alternatives tried in order at position i: the capture's first *)
(* position for the first one that matches, 0 when none does          *)
RECURSIVE AltAt(_, _, _, _)
AltAt(text, i, alternatives, a) ==
    IF a > Len(alternatives) THEN 0
    ELSE LET from == CaptureAt(text, i, alternatives[a])
         IN IF from # 0 THEN from ELSE AltAt(text, i, alternatives, a + 1)

(* the search from position i on: the capture's first position at the *)
(* leftmost position where the pattern matches, 0 when there is none  *)
RECURSIVE Search(_, _, _)
Search(text, i, alternatives) ==
    IF i > Len(text) THEN 0
    ELSE LET from == AltAt(text, i, alternatives, 1)
         IN IF from # 0 THEN from ELSE Search(text, i + 1, alternatives)

(* re.captures(text).and_then(|caps| caps.get(1)).map(|m| m.as_str().to_string()) *)
Captures(text, alternatives) ==
    LET from == Search(text, 1, alternatives)
    IN IF from = 0 THEN None
       ELSE Some(SubSeq(text, from, from + RunLen(text, from) - 1))

(* extract_diagram_id whose capture group is (\S+): any run up to a space *)
MutExtractDiagramIdAnyRun(text) ==
    LET lits == {S_diagram_ID, S_with_ID}
        hits == {i \in 1..Len(text) : \E lit \in lits :
                    /\ LitAt(text, i, lit)
                    /\ i + Len(lit) <= Len(text)
                    /\ text[i + Len(lit)] # " "}
    IN IF hits = {} THEN None
       ELSE LET i == CHOOSE p \in hits : \A q \in hits : p <= q
                from == i + Len(CHOOSE lit \in lits : LitAt(text, i, lit))
                n == CHOOSE n \in 1..(Len(text) - from + 1) :
                         /\ \A j \in 0..(n - 1) : text[from + j] # " "
                         /\ (from + n > Len(text) \/ text[from + n] = " ")
            IN Some(SubSeq(text, from, from + n - 1))

(* extract_diagram_id whose pattern lacks the alternative "with ID" *)
MutExtractDiagramIdOneAlternative(text) == Captures(text, <<S_diagram_ID>>)

(* Regex::new(r"(?:diagram ID|with ID): ([a-f0-9\-]+)") *)
extract_diagram_id(text) == Captures(text, <<S_diagram_ID, S_with_ID>>)

(* extract_node_id that keeps the last match of the pattern, not the first *)
MutExtractNodeIdLast(text) ==
    LET hits == {i \in 1..Len(text) : CaptureAt(text, i, S_ID) # 0}
    IN IF hits = {} THEN None
       ELSE LET i == CHOOSE p \in hits : \A q \in hits : p >= q
                from == i + Len(S_ID)
            IN Some(SubSeq(text, from, from + RunLen(text, from) - 1))

(* extract_node_id whose capture group has * for +: "ID: " alone matches *)
MutExtractNodeIdStar(text) ==
    LET hits == {i \in 1..Len(text) : LitAt(text, i, S_ID)}
    IN IF hits = {} THEN None
       ELSE LET i == CHOOSE p \in hits : \A q \in hits : p <= q
            IN Some(SubSeq(text, i + Len(S_ID), i + Len(S_ID) + RunLen(text, i + Len(S_ID)) - 1))

(* extract_node_id whose capture group lacks the +: one character only *)
MutExtractNodeIdOneChar(text) ==
    LET from == Search(text, 1, <<S_ID>>)
    IN IF from = 0 THEN None ELSE Some(SubSeq(text, from, from))

(* Regex::new(r"ID: ([a-f0-9\-]+)") *)
extract_node_id(text) == Captures(text, <<S_ID>>)

----------------------------------------------------------------------------
(* sample_uml.rs: the request envelopes built with json!.  The number     *)
(* under "id" is kept as its literal.                                     *)

Envelope(name, arguments, id) ==
    [jsonrpc |-> "2.0", method |-> "tools/call",
     params |-> [name |-> name, arguments |-> arguments], id |-> id]

delete_prev ==
    Envelope("delete_diagram", [diagramId |-> "9abb0ddb-4026-4a19-926e-0b63b1d395ea"], "0")

delete_empty ==
    Envelope("delete_diagram", [diagramId |-> "2b7c78b0-96e5-4ecc-b1da-de9ca391ce17"], "0.5")

create_diagram ==
    Envelope("create_diagram", [diagramType |-> "uml", name |-> "Sample UML Diagram"], "1")

class1(did) ==
    Envelope("add_uml_class",
             [diagramId |-> did, name |-> "Person",
              attributes |-> <<"id", "name", "age", "email">>,
              methods |-> <<"getName", "setAge", "getEmail">>,
              position |-> [x |-> 100, y |-> 100]], "2")

class2(did) ==
    Envelope("add_uml_class",
             [diagramId |-> did, name |-> "Car",
              attributes |-> <<"model", "year", "color">>,
              methods |-> <<"getModel", "setYear">>,
              position |-> [x |-> 350, y |-> 100]], "3")


(* edge with the two endpoints exchanged *)
MutEdgeSwapped(did, c1, c2) ==
    Envelope("create_edge",
             [diagramId |-> did, edgeType |-> "association",
              sourceId |-> c2, targetId |-> c1, label |-> "owns"], "4")

edge(did, c1, c2) ==
    Envelope("create_edge",
             [diagramId |-> did, edgeType |-> "association",
              sourceId |-> c1, targetId |-> c2, label |-> "owns"], "4")

----------------------------------------------------------------------------
(* The bodies the server may answer with. *)

S_Created_diagram == <<"C", "r", "e", "a", "t", "e", "d", " ", "d", "i", "a", "g", "r", "a", "m", " ">>
S_Node_created == <<"N", "o", "d", "e", " ", "c", "r", "e", "a", "t", "e", "d", ".", " ">>
S_no_identifier == <<"n", "o", " ", "i", "d", "e", "n", "t", "i", "f", "i", "e", "r", " ", "h", "e", "r", "e">>

(* "Created diagram with ID: X" and "Node created. ID: X" *)
DiagramText(X) == S_Created_diagram \o S_with_ID \o X
NodeText(X) == S_Node_created \o S_ID \o X

(* identifiers the server hands out in a run; the last has an upper-case *)
(* hexadecimal digit                                                      *)
WfIds == {<<"d", "1">>, <<"a", "1">>, <<"b", "1">>, <<"1", "D">>}

WfTexts == {DiagramText(X) : X \in {<<"d", "1">>, <<"1", "D">>}}
              \cup {NodeText(X) : X \in WfIds} \cup {S_no_identifier}

ErrPayload == JObj([code |-> JNum(-32000), message |-> "Diagram not found"])

Success(t) == JObj([result |-> JObj([content |-> JArr(<<JObj([text |-> JStr(t)])>>)])])
ServerError == JObj([error |-> ErrPayload])
ErrorAndResult(t) ==
    JObj([error |-> ErrPayload,
          result |-> JObj([content |-> JArr(<<JObj([text |-> JStr(t)])>>)])])

(* bodies with neither an error member nor a string at result.content[0].text *)
MalformedBodies ==
    { JObj([id |-> JNum(1)]),
      JObj([result |-> JObj([id |-> JNum(1)])]),
      JObj([result |-> JObj([content |-> JArr(<<>>)])]),
      JObj([result |-> JObj([content |-> JArr(<<JObj([text |-> JNum(42)])>>)])]),
      JNull }

Responses ==
    {Success(t) : t \in WfTexts}
        \cup {ErrorAndResult(DiagramText(<<"d", "1">>)), ErrorAndResult(NodeText(<<"a", "1">>))}
        \cup {ServerError, JObj([error |-> JNull])} \cup MalformedBodies

(* the answers to the two delete_diagram calls *)
CleanupResponses ==
    { Success(S_no_identifier), ServerError, JNull }

----------------------------------------------------------------------------
(* sample_uml_diagram *)

NoPanic == [fmt |-> "running", args |-> <<>>]

Line(fmt, args) == [fmt |-> fmt, args |-> args]

(* the message of the expect() on send() at each step *)
SendExpect ==
    [s \in {"CleanupPrevious", "CleanupEmpty", "CreateDiagram",
            "CreateEntityA", "CreateEntityB", "CreateEdge"} |->
        CASE s \in {"CleanupPrevious", "CleanupEmpty"} -> "Failed to send delete_diagram request"
          [] s = "CreateDiagram" -> "Failed to send create_diagram request"
          [] s = "CreateEntityA" -> "Failed to add class1"
          [] s = "CreateEntityB" -> "Failed to add class2"
          [] s = "CreateEdge" -> "Failed to add edge"]

WfInit ==
    /\ state = "CleanupPrevious"
    /\ awaiting = FALSE
    /\ sent = <<>>
    /\ result_delete_prev = Unset
    /\ result_delete_empty = Unset
    /\ result = Unset
    /\ result1 = Unset
    /\ result2 = Unset
    /\ result3 = Unset
    /\ diagram_id = None
    /\ class1_id = None
    /\ class2_id = None
    /\ stdout = <<>>
    /\ panic = NoPanic

(* client.post(url).json(&req).send(): the request goes out *)
Post(step, req) ==
    /\ state = step
    /\ ~awaiting
    /\ sent' = Append(sent, req)
    /\ awaiting' = TRUE
    /\ UNCHANGED <<state, result_delete_prev, result_delete_empty, result, result1,
                   result2, result3, diagram_id, class1_id, class2_id, stdout, panic>>

(* panic!: the run ends abnormally *)
PanicWith(fmt, args) ==
    /\ state' = "Failed"
    /\ panic' = Line(fmt, args)
    /\ awaiting' = FALSE

Panic(msg) == PanicWith(msg, <<>>)

SendDeletePrev == Post("CleanupPrevious", delete_prev) /\ UNCHANGED <<exvars, twin, dbvars>>
SendDeleteEmpty == Post("CleanupEmpty", delete_empty) /\ UNCHANGED <<exvars, twin, dbvars>>
SendCreateDiagram == Post("CreateDiagram", create_diagram) /\ UNCHANGED <<exvars, twin, dbvars>>
SendClass1 == Post("CreateEntityA", class1(diagram_id[1])) /\ UNCHANGED <<exvars, twin, dbvars>>
(* SendClass2 that goes out while the first add_uml_class is still unanswered *)
MutSendClass2Pipelined ==
    /\ state = "CreateEntityA" /\ awaiting /\ Len(sent) = 4
    /\ sent' = Append(sent, class2(diagram_id[1]))
    /\ UNCHANGED <<state, awaiting, result_delete_prev, result_delete_empty, result, result1,
                   result2, result3, diagram_id, class1_id, class2_id, stdout, panic, exvars, twin, dbvars>>

(* SendClass2 that passes the first class's id where the diagram's belongs *)
MutSendClass2WrongId == Post("CreateEntityB", class2(class1_id[1])) /\ UNCHANGED <<exvars, twin, dbvars>>

SendClass2 == Post("CreateEntityB", class2(diagram_id[1])) /\ UNCHANGED <<exvars, twin, dbvars>>
(* SendEdge that does nothing when the two classes got the same id *)
MutSendEdgeOnlyDistinct ==
    /\ class1_id # class2_id
    /\ Post("CreateEdge", edge(diagram_id[1], class1_id[1], class2_id[1]))
    /\ UNCHANGED <<exvars, twin, dbvars>>

SendEdge ==
    Post("CreateEdge", edge(diagram_id[1], class1_id[1], class2_id[1])) /\ UNCHANGED <<exvars, twin, dbvars>>

(* SendFailed that lets a cleanup step go on when its request fails, as *)
(* a reported error does                                               *)
MutSendFailedCleanupTolerant ==
    /\ awaiting
    /\ IF state \in {"CleanupPrevious", "CleanupEmpty"}
       THEN /\ state' = IF state = "CleanupPrevious" THEN "CleanupEmpty" ELSE "CreateDiagram"
            /\ awaiting' = FALSE
            /\ UNCHANGED panic
       ELSE Panic(SendExpect[state])
    /\ UNCHANGED <<sent, result_delete_prev, result_delete_empty, result, result1,
                   result2, result3, diagram_id, class1_id, class2_id, stdout, exvars, twin, dbvars>>

(* send() returns Err: .expect(...) panics *)
SendFailed ==
    /\ awaiting
    /\ Panic(SendExpect[state])
    /\ UNCHANGED <<sent, result_delete_prev, result_delete_empty, result, result1,
                   result2, result3, diagram_id, class1_id, class2_id, stdout, exvars, twin, dbvars>>

(* response.json() returns Err: .expect("Invalid JSON response") panics *)
InvalidJson ==
    /\ awaiting
    /\ Panic("Invalid JSON response")
    /\ UNCHANGED <<sent, result_delete_prev, result_delete_empty, result, result1,
                   result2, result3, diagram_id, class1_id, class2_id, stdout, exvars, twin, dbvars>>


(* RecvDeletePrev that goes straight to create_diagram when the previous *)
(* diagram was deleted, and tries the second delete only otherwise       *)
MutRecvDeletePrevSkipSecond ==
    /\ state = "CleanupPrevious" /\ awaiting
    /\ \E val \in CleanupResponses :
        /\ result_delete_prev' = val
        /\ stdout' = Append(stdout,
              IF HasError(val)
              THEN Line("Failed to delete previous diagram: {:?}", <<Get(val, "error")[1]>>)
              ELSE Line("Previous diagram deleted successfully", <<>>))
        /\ state' = IF HasError(val) THEN "CleanupEmpty" ELSE "CreateDiagram"
    /\ awaiting' = FALSE
    /\ UNCHANGED <<sent, result_delete_empty, result, result1, result2, result3,
                   diagram_id, class1_id, class2_id, panic, exvars, twin, dbvars>>

(* RecvDeletePrev that asks again when the server reports an error *)
MutRecvDeletePrevRetry ==
    /\ state = "CleanupPrevious" /\ awaiting
    /\ \E val \in CleanupResponses :
        /\ result_delete_prev' = val
        /\ stdout' = Append(stdout,
              IF HasError(val)
              THEN Line("Failed to delete previous diagram: {:?}", <<Get(val, "error")[1]>>)
              ELSE Line("Previous diagram deleted successfully", <<>>))
        /\ state' = IF HasError(val) THEN "CleanupPrevious" ELSE "CleanupEmpty"
    /\ awaiting' = FALSE
    /\ UNCHANGED <<sent, result_delete_empty, result, result1, result2, result3,
                   diagram_id, class1_id, class2_id, panic, exvars, twin, dbvars>>

RecvDeletePrev ==
    /\ state = "CleanupPrevious" /\ awaiting
    /\ \E val \in CleanupResponses :
        /\ result_delete_prev' = val
        /\ stdout' = Append(stdout,
              IF HasError(val)
              THEN Line("Failed to delete previous diagram: {:?}", <<Get(val, "error")[1]>>)
              ELSE Line("Previous diagram deleted successfully", <<>>))
    /\ state' = "CleanupEmpty"
    /\ awaiting' = FALSE
    /\ UNCHANGED <<sent, result_delete_empty, result, result1, result2, result3,
                   diagram_id, class1_id, class2_id, panic, exvars, twin, dbvars>>


(* RecvDeleteEmpty that treats a reported error as the later steps do *)
MutRecvDeleteEmptyFatal ==
    /\ state = "CleanupEmpty" /\ awaiting
    /\ \E val \in CleanupResponses :
        /\ result_delete_empty' = val
        /\ IF HasError(val)
           THEN /\ stdout' = Append(stdout,
                      Line("Failed to delete empty sample diagram: {:?}", <<Get(val, "error")[1]>>))
                /\ Panic("Server returned error for delete_diagram")
           ELSE /\ stdout' = Append(stdout, Line("Empty sample diagram deleted successfully", <<>>))
                /\ state' = "CreateDiagram"
                /\ awaiting' = FALSE
                /\ UNCHANGED panic
    /\ UNCHANGED <<sent, result_delete_prev, result, result1, result2, result3,
                   diagram_id, class1_id, class2_id, exvars, twin, dbvars>>

RecvDeleteEmpty ==
    /\ state = "CleanupEmpty" /\ awaiting
    /\ \E val \in CleanupResponses :
        /\ result_delete_empty' = val
        /\ stdout' = Append(stdout,
              IF HasError(val)
              THEN Line("Failed to delete empty sample diagram: {:?}", <<Get(val, "error")[1]>>)
              ELSE Line("Empty sample diagram deleted successfully", <<>>))
    /\ state' = "CreateDiagram"
    /\ awaiting' = FALSE
    /\ UNCHANGED <<sent, result_delete_prev, result, result1, result2, result3,
                   diagram_id, class1_id, class2_id, panic, exvars, twin, dbvars>>


(* RecvCreateDiagram with unwrap_or_default() in place of the panic on a  *)
(* text without a diagram id                                              *)
MutRecvCreateDiagramDefaultId ==
    /\ state = "CreateDiagram" /\ awaiting
    /\ \E val \in Responses :
        /\ result' = val
        /\ IF text_msg(val) = None
           THEN /\ Panic("No diagram creation text found")
                /\ UNCHANGED <<diagram_id, stdout>>
           ELSE /\ diagram_id' = IF extract_diagram_id(text_msg(val)[1]) = None
                                 THEN Some(<<>>)
                                 ELSE extract_diagram_id(text_msg(val)[1])
                /\ stdout' = Append(stdout, Line("UML Diagram ID: {}", <<JStr(diagram_id'[1])>>))
                /\ state' = "CreateEntityA"
                /\ awaiting' = FALSE
                /\ UNCHANGED panic
    /\ UNCHANGED <<sent, result_delete_prev, result_delete_empty, result1, result2, result3,
                   class1_id, class2_id, exvars, twin, dbvars>>

RecvCreateDiagram ==
    /\ state = "CreateDiagram" /\ awaiting
    /\ \E val \in Responses :
        /\ result' = val
        /\ IF text_msg(val) = None
           THEN /\ Panic("No diagram creation text found")
                /\ UNCHANGED <<diagram_id, stdout>>
           ELSE IF extract_diagram_id(text_msg(val)[1]) = None
           THEN /\ Panic("Failed to extract diagramId from text")
                /\ UNCHANGED <<diagram_id, stdout>>
           ELSE /\ diagram_id' = extract_diagram_id(text_msg(val)[1])
                /\ stdout' = Append(stdout, Line("UML Diagram ID: {}", <<JStr(diagram_id'[1])>>))
                /\ state' = "CreateEntityA"
                /\ awaiting' = FALSE
                /\ UNCHANGED panic
    /\ UNCHANGED <<sent, result_delete_prev, result_delete_empty, result1, result2, result3,
                   class1_id, class2_id, exvars, twin, dbvars>>


(* RecvClass1 that extracts and stores the node id before it tests "error" *)
MutRecvClass1StoreFirst ==
    /\ state = "CreateEntityA" /\ awaiting
    /\ \E val \in Responses :
        /\ result1' = val
        /\ IF HasError(val)
           THEN /\ class1_id' = IF IndexText(val) = None THEN class1_id
                                ELSE extract_node_id(IndexText(val)[1])
                /\ stdout' = Append(stdout, Line("Server error: {:?}", <<Get(val, "error")[1]>>))
                /\ Panic("Server returned error for add_uml_class")
           ELSE IF IndexText(val) = None
           THEN /\ stdout' = Append(stdout, Line("Full response: {:?}", <<val>>))
                /\ Panic("No text found in response")
                /\ UNCHANGED class1_id
           ELSE IF extract_node_id(IndexText(val)[1]) = None
           THEN /\ stdout' = Append(stdout, Line("Response text: {}", <<JStr(IndexText(val)[1])>>))
                /\ PanicWith("Failed to extract node ID from: {}", <<JStr(IndexText(val)[1])>>)
                /\ UNCHANGED class1_id
           ELSE /\ class1_id' = extract_node_id(IndexText(val)[1])
                /\ state' = "CreateEntityB"
                /\ awaiting' = FALSE
                /\ UNCHANGED <<stdout, panic>>
    /\ UNCHANGED <<sent, result_delete_prev, result_delete_empty, result, result2, result3,
                   diagram_id, class2_id, exvars, twin, dbvars>>

(* RecvClass1 that only logs a reported error, as the cleanup steps do *)
MutRecvClass1ErrorAdvisory ==
    /\ state = "CreateEntityA" /\ awaiting
    /\ \E val \in Responses :
        /\ result1' = val
        /\ IF IndexText(val) = None
           THEN /\ stdout' = Append(stdout, Line("Full response: {:?}", <<val>>))
                /\ Panic("No text found in response")
                /\ UNCHANGED class1_id
           ELSE IF extract_node_id(IndexText(val)[1]) = None
           THEN /\ stdout' = Append(stdout, Line("Response text: {}", <<JStr(IndexText(val)[1])>>))
                /\ PanicWith("Failed to extract node ID from: {}", <<JStr(IndexText(val)[1])>>)
                /\ UNCHANGED class1_id
           ELSE /\ class1_id' = extract_node_id(IndexText(val)[1])
                /\ stdout' = IF HasError(val)
                             THEN Append(stdout, Line("Server error: {:?}", <<Get(val, "error")[1]>>))
                             ELSE stdout
                /\ state' = "CreateEntityB"
                /\ awaiting' = FALSE
                /\ UNCHANGED panic
    /\ UNCHANGED <<sent, result_delete_prev, result_delete_empty, result, result2, result3,
                   diagram_id, class2_id, exvars, twin, dbvars>>

RecvClass1 ==
    /\ state = "CreateEntityA" /\ awaiting
    /\ \E val \in Responses :
        /\ result1' = val
        /\ IF HasError(val)
           THEN /\ stdout' = Append(stdout, Line("Server error: {:?}", <<Get(val, "error")[1]>>))
                /\ Panic("Server returned error for add_uml_class")
                /\ UNCHANGED class1_id
           ELSE IF IndexText(val) = None
           THEN /\ stdout' = Append(stdout, Line("Full response: {:?}", <<val>>))
                /\ Panic("No text found in response")
                /\ UNCHANGED class1_id
           ELSE IF extract_node_id(IndexText(val)[1]) = None
           THEN /\ stdout' = Append(stdout, Line("Response text: {}", <<JStr(IndexText(val)[1])>>))
                /\ PanicWith("Failed to extract node ID from: {}", <<JStr(IndexText(val)[1])>>)
                /\ UNCHANGED class1_id
           ELSE /\ class1_id' = extract_node_id(IndexText(val)[1])
                /\ state' = "CreateEntityB"
                /\ awaiting' = FALSE
                /\ UNCHANGED <<stdout, panic>>
    /\ UNCHANGED <<sent, result_delete_prev, result_delete_empty, result, result2, result3,
                   diagram_id, class2_id, exvars, twin, dbvars>>


(* RecvClass2 with unwrap_or_default() in place of the panic on a text *)
(* without a node id                                                   *)
MutRecvClass2DefaultId ==
    /\ state = "CreateEntityB" /\ awaiting
    /\ \E val \in Responses :
        /\ result2' = val
        /\ IF HasError(val)
           THEN /\ stdout' = Append(stdout, Line("Server error: {:?}", <<Get(val, "error")[1]>>))
                /\ Panic("Server returned error for add_uml_class")
                /\ UNCHANGED class2_id
           ELSE IF IndexText(val) = None
           THEN /\ stdout' = Append(stdout, Line("Full response: {:?}", <<val>>))
                /\ Panic("No text found in response")
                /\ UNCHANGED class2_id
           ELSE /\ class2_id' = IF extract_node_id(IndexText(val)[1]) = None
                                THEN Some(<<>>)
                                ELSE extract_node_id(IndexText(val)[1])
                /\ stdout' = Append(stdout,
                      Line("Class1 ID: {}  Class2 ID: {}", <<JStr(class1_id[1]), JStr(class2_id'[1])>>))
                /\ state' = "CreateEdge"
                /\ awaiting' = FALSE
                /\ UNCHANGED panic
    /\ UNCHANGED <<sent, result_delete_prev, result_delete_empty, result, result1, result3,
                   diagram_id, class1_id, exvars, twin, dbvars>>

RecvClass2 ==
    /\ state = "CreateEntityB" /\ awaiting
    /\ \E val \in Responses :
        /\ result2' = val
        /\ IF HasError(val)
           THEN /\ stdout' = Append(stdout, Line("Server error: {:?}", <<Get(val, "error")[1]>>))
                /\ Panic("Server returned error for add_uml_class")
                /\ UNCHANGED class2_id
           ELSE IF IndexText(val) = None
           THEN /\ stdout' = Append(stdout, Line("Full response: {:?}", <<val>>))
                /\ Panic("No text found in response")
                /\ UNCHANGED class2_id
           ELSE IF extract_node_id(IndexText(val)[1]) = None
           THEN /\ stdout' = Append(stdout, Line("Response text: {}", <<JStr(IndexText(val)[1])>>))
                /\ PanicWith("Failed to extract node ID from: {}", <<JStr(IndexText(val)[1])>>)
                /\ UNCHANGED class2_id
           ELSE /\ class2_id' = extract_node_id(IndexText(val)[1])
                /\ stdout' = Append(stdout,
                      Line("Class1 ID: {}  Class2 ID: {}", <<JStr(class1_id[1]), JStr(class2_id'[1])>>))
                /\ state' = "CreateEdge"
                /\ awaiting' = FALSE
                /\ UNCHANGED panic
    /\ UNCHANGED <<sent, result_delete_prev, result_delete_empty, result, result1, result3,
                   diagram_id, class1_id, exvars, twin, dbvars>>

RecvEdge ==
    /\ state = "CreateEdge" /\ awaiting
    /\ \E val \in Responses :
        /\ result3' = val
        /\ IF HasError(val)
           THEN /\ stdout' = Append(stdout, Line("Server error: {:?}", <<Get(val, "error")[1]>>))
                /\ Panic("Server returned error for create_edge")
           ELSE /\ stdout' = Append(stdout,
                      Line("Association edge added between Person and Car", <<>>))
                /\ state' = "Done"
                /\ awaiting' = FALSE
                /\ UNCHANGED panic
    /\ UNCHANGED <<sent, result_delete_prev, result_delete_empty, result, result1, result2,
                   diagram_id, class1_id, class2_id, exvars, twin, dbvars>>

----------------------------------------------------------------------------
(* database/error.rs: DatabaseError and its two classifications *)

(* the bound on timeout_secs (a u64 in the source) *)
MaxTimeoutSecs == 2
(* the String payloads, and the descriptions of the wrapped errors *)
Messages == {"refused", "disk full"}

(* pub enum DatabaseError: a variant and its payload *)
Variant0(name) == [variant : {name}, payload : Messages]
VariantSecs(name) == [variant : {name}, payload : 0..MaxTimeoutSecs]
DatabaseError ==
    Variant0("ConnectionFailed") \cup Variant0("ConfigurationError")
        \cup Variant0("QueryFailed") \cup Variant0("SerializationError")
        \cup Variant0("TimeRangeError") \cup Variant0("SensorNotFound")
        \cup Variant0("InvalidDataFormat") \cup Variant0("TransactionFailed")
        \cup VariantSecs("ConnectionTimeout") \cup VariantSecs("QueryTimeout")
        \cup Variant0("DatabaseUnavailable") \cup Variant0("FeatureNotSupported")
        \cup Variant0("IoError") \cup Variant0("JsonError") \cup Variant0("Other")

(* is_retryable that takes every connection problem for a retryable one *)
MutIsRetryableAnyConnectionProblem(e) ==
    e.variant \in {"ConnectionFailed", "ConnectionTimeout", "QueryTimeout", "DatabaseUnavailable"}

(* matches!(self, ConnectionTimeout { .. } | QueryTimeout { .. } | DatabaseUnavailable { .. }) *)
is_retryable(e) ==
    e.variant \in {"ConnectionTimeout", "QueryTimeout", "DatabaseUnavailable"}

(* matches!(self, ConnectionFailed(_) | ConnectionTimeout { .. } | DatabaseUnavailable { .. }) *)
is_connection_error(e) ==
    e.variant \in {"ConnectionFailed", "ConnectionTimeout", "DatabaseUnavailable"}

NoError == [variant |-> "none", payload |-> "none"]
NotAsked == [done |-> FALSE, value |-> FALSE]

(* no DatabaseError under consideration *)
DbIdle ==
    /\ self = NoError
    /\ is_retryable_out = NotAsked
    /\ is_connection_error_out = NotAsked

NoInput == [lead |-> <<>>, marker |-> <<>>, token |-> <<>>, trail |-> <<>>]
NotCalled == [done |-> FALSE, value |-> None]

ExIdle ==
    /\ input = NoInput
    /\ text_out = NotCalled
    /\ diagram_out = NotCalled
    /\ node_out = NotCalled

(* no second run *)
NoTwin == <<>>

Init == WfInit /\ ExIdle /\ twin = NoTwin /\ DbIdle

Next ==
    \/ SendDeletePrev
    \/ RecvDeletePrev
    \/ SendDeleteEmpty
    \/ RecvDeleteEmpty
    \/ SendCreateDiagram
    \/ RecvCreateDiagram
    \/ SendClass1
    \/ RecvClass1
    \/ SendClass2
    \/ RecvClass2
    \/ SendEdge
    \/ RecvEdge
    \/ SendFailed
    \/ InvalidJson

Spec == Init /\ [][Next]_vars

(* The function runs to its end: a step that can be taken is taken. *)
FairSpec == Init /\ [][Next]_vars /\ WF_vars(Next)

----------------------------------------------------------------------------
(* The extractors and the success path of the interpreter applied to      *)
(* texts lead \o marker \o token \o trail drawn from bounded sets.         *)

MaxTokenLen == 2

TokenChars == {"a", "0", "-", "D", "g"}
Tokens == UNION {[1..n -> TokenChars] : n \in 0..MaxTokenLen}

Leads == { <<>>, S_Created_diagram, S_Node_created, S_no_identifier,
           <<"I", "D", ":", " ", "0", " ">>,
           <<"w", "i", "t", "h", " ", "I", "D", ":", " ", "f", " ">> }
Markers == { <<>>, S_ID, S_with_ID, S_diagram_ID }
Trails == { <<>>, <<".">>, <<" ", "d", "o", "n", "e">>, <<"d", "o", "n", "e">>,
            <<" ", "w", "i", "t", "h", " ", "I", "D", ":", " ", "9">> }

TextOf(in) == in.lead \o in.marker \o in.token \o in.trail

ExInit ==
    /\ input \in [lead : Leads, marker : Markers, token : Tokens, trail : Trails]
    /\ text_out = NotCalled
    /\ diagram_out = NotCalled
    /\ node_out = NotCalled

(* the text of {"result":{"content":[{"text": <text>}]}} *)
CallTextMsg ==
    /\ ~text_out.done
    /\ text_out' = [done |-> TRUE, value |-> text_msg(Success(TextOf(input)))]
    /\ UNCHANGED <<input, diagram_out, node_out, wfvars, twin, dbvars>>

CallExtractDiagram ==
    /\ ~diagram_out.done
    /\ diagram_out' = [done |-> TRUE, value |-> extract_diagram_id(TextOf(input))]
    /\ UNCHANGED <<input, text_out, node_out, wfvars, twin, dbvars>>

CallExtractNode ==
    /\ ~node_out.done
    /\ node_out' = [done |-> TRUE, value |-> extract_node_id(TextOf(input))]
    /\ UNCHANGED <<input, text_out, diagram_out, wfvars, twin, dbvars>>

ExtractInit == WfInit /\ ExInit /\ twin = NoTwin /\ DbIdle

ExtractNext ==
    \/ CallTextMsg
    \/ CallExtractDiagram
    \/ CallExtractNode

ExtractSpec == ExtractInit /\ [][ExtractNext]_vars

----------------------------------------------------------------------------
(* Properties of sample_uml_diagram *)

Name(req) == req.params.name
Args(req) == req.params.arguments

(* the identifier the extractor finds in the text of a response, None when *)
(* the response has no text or the text no identifier                      *)
DiagramIdIn(val) ==
    LET t == text_msg(val) IN IF t = None THEN None ELSE extract_diagram_id(t[1])
NodeIdIn(val) ==
    LET t == IndexText(val) IN IF t = None THEN None ELSE extract_node_id(t[1])

DiagramCaptured == diagram_id # None /\ diagram_id = DiagramIdIn(result)
Class1Captured == class1_id # None /\ class1_id = NodeIdIn(result1)
Class2Captured == class2_id # None /\ class2_id = NodeIdIn(result2)

(* C1: no add_uml_class request is sent unless the diagram identifier has  *)
(* been captured from the create_diagram response, and no create_edge      *)
(* request is sent unless the diagram identifier and both entity           *)
(* identifiers have been captured from their responses.                    *)
C1_NoRequestBeforeCapture ==
    /\ (\E i \in 1..Len(sent) : Name(sent[i]) = "add_uml_class") => DiagramCaptured
    /\ (\E i \in 1..Len(sent) : Name(sent[i]) = "create_edge") =>
          DiagramCaptured /\ Class1Captured /\ Class2Captured

C1_Witness ==
    /\ Len(sent) = 6
    /\ Name(sent[6]) = "create_edge"
    /\ DiagramCaptured /\ Class1Captured /\ Class2Captured

(* the fixed order of the tool calls, each with what tells it apart *)
FixedCalls ==
    << [name |-> "delete_diagram", id |-> "0"],
       [name |-> "delete_diagram", id |-> "0.5"],
       [name |-> "create_diagram", id |-> "1"],
       [name |-> "add_uml_class", id |-> "2"],
       [name |-> "add_uml_class", id |-> "3"],
       [name |-> "create_edge", id |-> "4"] >>

Call(req) == [name |-> Name(req), id |-> req.id]

(* C2: the tool calls sent are a prefix of the fixed sequence              *)
(* delete_diagram(9abb0ddb-...), delete_diagram(2b7c78b0-...),             *)
(* create_diagram, add_uml_class(Person), add_uml_class(Car), create_edge: *)
(* nothing is skipped, reordered or repeated, at most six are sent.        *)
C2_SentIsPrefixOfFixedSequence ==
    /\ Len(sent) <= Len(FixedCalls)
    /\ \A i \in 1..Len(sent) : Call(sent[i]) = FixedCalls[i]
    /\ Len(sent) >= 1 => sent[1] = delete_prev
    /\ Len(sent) >= 2 => sent[2] = delete_empty
    /\ Len(sent) >= 3 => sent[3] = create_diagram
    /\ Len(sent) >= 4 => Args(sent[4]).name = "Person"
    /\ Len(sent) >= 5 => Args(sent[5]).name = "Car"

C2_Witness ==
    /\ state = "Done"
    /\ Len(sent) = 6
    /\ HasError(result_delete_prev)

(* the non-cleanup steps: the response each received and the number of   *)
(* requests sent once its request is out                                 *)
StepResults == <<result_delete_prev, result_delete_empty, result, result1, result2, result3>>
NonCleanup == 3..6

(* C3: a response with an error member received at CreateDiagram,         *)
(* CreateEntityA, CreateEntityB or CreateEdge sends the run to Failed and *)
(* the next step's request is never sent.                                 *)
C3_ErrorNeverAdvances ==
    \A n \in NonCleanup :
        HasError(StepResults[n]) => state = "Failed" /\ Len(sent) = n

(* a body with neither an error member nor a string at result.content[0].text *)
Malformed(val) == val # Unset /\ ~HasError(val) /\ text_msg(val) = None

(* C4: a Malformed response at CreateDiagram, CreateEntityA, CreateEntityB *)
(* or CreateEdge sends the run to Failed; the run never reaches Done after *)
(* a Malformed response to create_edge.                                    *)
C4_MalformedIsFatal ==
    \A n \in NonCleanup :
        Malformed(StepResults[n]) => state = "Failed" /\ Len(sent) = n

(* C5: a cleanup step whose response is received never blocks: whatever   *)
(* the delete_diagram response holds, the run is at the next step once it *)
(* is read, and after both are read the create_diagram request is sent.   *)
C5_CleanupNeverBlocks ==
    /\ [](result_delete_prev # Unset /\ Len(sent) = 1 => state = "CleanupEmpty")
    /\ [](result_delete_empty # Unset /\ Len(sent) = 2 => state = "CreateDiagram")
    /\ (result_delete_empty # Unset) ~> (Len(sent) >= 3 /\ sent[3] = create_diagram)

C5_Witness ==
    /\ HasError(result_delete_prev)
    /\ HasError(result_delete_empty)
    /\ Len(sent) = 3
    /\ sent[3] = create_diagram

Count(P(_)) == Cardinality({i \in 1..Len(sent) : P(sent[i])})
IsClassB(req) == Name(req) = "add_uml_class" /\ Args(req).name = "Car"
IsEdge(req) == Name(req) = "create_edge"

(* C6: Failed is absorbing: once the run is in Failed it stays there and  *)
(* sends nothing more; a ServerError at CreateEntityA puts the run in     *)
(* Failed with no add_uml_class call for entity B and no create_edge call.*)
C6_FailedIsAbsorbing ==
    /\ [][state = "Failed" => state' = "Failed" /\ sent' = sent]_vars
    /\ [](HasError(result1) =>
            state = "Failed" /\ Count(IsClassB) = 0 /\ Count(IsEdge) = 0)

C6_Witness == HasError(result1) /\ state = "Failed" /\ Len(sent) = 4

IsSuccess(val) == val # Unset /\ ~HasError(val) /\ text_msg(val) # None
AllSucceeded == \A n \in 1..6 : IsSuccess(StepResults[n])

(* the text of a response embeds the identifier X the way the server *)
(* writes it: "Created diagram with ID: X" or "Node created. ID: X"  *)
Embeds(val, X) == text_msg(val) \in {Some(DiagramText(X)), Some(NodeText(X))}

EdgeSentWith(D, A, B) ==
    /\ Len(sent) = 6
    /\ Name(sent[6]) = "create_edge"
    /\ Args(sent[6]).sourceId = A
    /\ Args(sent[6]).targetId = B
    /\ Args(sent[6]).diagramId = D

(* lower-case hexadecimal digits and the hyphen; hexadecimal digits of *)
(* either case and the hyphen                                          *)
LowerHexHyphen == {"0", "1", "2", "3", "4", "5", "6", "7", "8", "9",
                   "a", "b", "c", "d", "e", "f", "-"}
HexHyphen == LowerHexHyphen \cup {"A", "B", "C", "D", "E", "F"}
IsToken(X, chars) == X # <<>> /\ \A i \in 1..Len(X) : X[i] \in chars

(* C7 as stated: for any identifiers D, A, B, if all six steps receive    *)
(* success responses and the create_diagram and the two add_uml_class     *)
(* responses embed D, A and B, then create_edge is sent with sourceId = A,*)
(* targetId = B and diagramId = D.                                        *)
C7_EdgeArgsAnyIds ==
    \A D \in WfIds, A \in WfIds, B \in WfIds :
        AllSucceeded /\ Embeds(result, D) /\ Embeds(result1, A) /\ Embeds(result2, B)
            => EdgeSentWith(D, A, B)

(* C7 amended: the same for identifiers D, A, B that are non-empty tokens *)
(* of lower-case hexadecimal digits and hyphens.                          *)
C7_EdgeArgsLowerHexIds ==
    \A D \in WfIds, A \in WfIds, B \in WfIds :
        /\ IsToken(D, LowerHexHyphen) /\ IsToken(A, LowerHexHyphen) /\ IsToken(B, LowerHexHyphen)
        /\ AllSucceeded /\ Embeds(result, D) /\ Embeds(result1, A) /\ Embeds(result2, B)
        => EdgeSentWith(D, A, B)

C7_Witness ==
    /\ AllSucceeded
    /\ state = "Done"
    /\ Embeds(result, <<"d", "1">>) /\ Embeds(result1, <<"a", "1">>) /\ Embeds(result2, <<"b", "1">>)
    /\ EdgeSentWith(<<"d", "1">>, <<"a", "1">>, <<"b", "1">>)

(* C10: a Success at CreateDiagram, CreateEntityA or CreateEntityB whose  *)
(* text holds no identifier for that step's pattern sends the run to      *)
(* Failed, leaves that step's identifier unwritten, and the following     *)
(* step's request is never sent.                                          *)
C10_MissingIdentifierIsFatal ==
    /\ IsSuccess(result) /\ DiagramIdIn(result) = None
          => state = "Failed" /\ diagram_id = None /\ Len(sent) = 3
    /\ IsSuccess(result1) /\ NodeIdIn(result1) = None
          => state = "Failed" /\ class1_id = None /\ Len(sent) = 4
    /\ IsSuccess(result2) /\ NodeIdIn(result2) = None
          => state = "Failed" /\ class2_id = None /\ Len(sent) = 5

C10_Witness ==
    /\ IsSuccess(result2) /\ NodeIdIn(result2) = None
    /\ state = "Failed" /\ class2_id = None /\ class1_id # None

----------------------------------------------------------------------------
(* Properties of the extractors *)

(* the text is "Created diagram with ID: X" with X the token *)
C8Shape ==
    /\ input.lead = S_Created_diagram
    /\ input.marker = S_with_ID
    /\ input.trail = <<>>

C8Result(X) ==
    /\ text_out.done => text_out.value = Some(DiagramText(X))
    /\ diagram_out.done => diagram_out.value = Some(X)

(* C8 as stated: for any identifier X (a non-empty token of hexadecimal   *)
(* digits and hyphens), the response with text "Created diagram with ID:  *)
(* X" is read as that text and extract_diagram_id returns exactly X.      *)
C8_DiagramIdExactAnyId ==
    C8Shape /\ IsToken(input.token, HexHyphen) => C8Result(input.token)

(* C8 amended: the same for every X that is a non-empty token of          *)
(* lower-case hexadecimal digits and hyphens.                             *)
C8_DiagramIdExactLowerHex ==
    C8Shape /\ IsToken(input.token, LowerHexHyphen) => C8Result(input.token)

C8_Witness ==
    /\ C8Shape
    /\ input.token = <<"a", "-">>
    /\ text_out.done /\ diagram_out.done
    /\ diagram_out.value = Some(<<"a", "-">>)

(* the prose before the last "ID: " of lead \o marker *)
Leading == SubSeq(input.lead \o input.marker, 1, Len(input.lead \o input.marker) - Len(S_ID))

(* C9 as stated: for a text made of leading prose, "ID: ", a token T of   *)
(* hexadecimal digits and hyphens, and trailing prose, extract_node_id    *)
(* returns exactly T whatever the leading and trailing prose are.         *)
C9_NodeIdExactAnyProse ==
    /\ input.marker # <<>>
    /\ IsToken(input.token, HexHyphen)
    /\ node_out.done
    => node_out.value = Some(input.token)

(* C9 amended: extract_node_id returns exactly T when T is a non-empty    *)
(* token of lower-case hexadecimal digits and hyphens, the leading prose  *)
(* holds no earlier "ID: " followed by such a character, and the trailing *)
(* prose does not begin with such a character.                            *)
C9_NodeIdExactFirstAndDelimited ==
    /\ input.marker # <<>>
    /\ IsToken(input.token, LowerHexHyphen)
    /\ extract_node_id(Leading) = None
    /\ (input.trail = <<>> \/ input.trail[1] \notin LowerHexHyphen)
    /\ node_out.done
    => node_out.value = Some(input.token)

C9_Witness ==
    /\ input.lead = S_Node_created
    /\ input.marker = S_ID
    /\ input.token = <<"0", "a">>
    /\ input.trail = <<" ", "d", "o", "n", "e">>
    /\ node_out.done
    /\ node_out.value = Some(<<"0", "a">>)

(* the positions of a text where lit is followed by a lower-case *)
(* hexadecimal digit or a hyphen                                 *)
OccursAt(text, i, lit) ==
    /\ i + Len(lit) <= Len(text)
    /\ SubSeq(text, i, i + Len(lit) - 1) = lit
    /\ text[i + Len(lit)] \in LowerHexHyphen
NodeOccurrences(text) == {i \in 1..Len(text) : OccursAt(text, i, S_ID)}
DiagramOccurrences(text) ==
    {i \in 1..Len(text) : OccursAt(text, i, S_diagram_ID) \/ OccursAt(text, i, S_with_ID)}

IsOption(v) == v = None \/ Len(v) = 1

(* C11: for every text extract_diagram_id and extract_node_id return an   *)
(* identifier or None; for a text with no occurrence of the pattern, such *)
(* as "no identifier here", they return None.                             *)
C11_ExtractorsTotalAbsentIsNone ==
    /\ diagram_out.done =>
          /\ IsOption(diagram_out.value)
          /\ DiagramOccurrences(TextOf(input)) = {} => diagram_out.value = None
    /\ node_out.done =>
          /\ IsOption(node_out.value)
          /\ NodeOccurrences(TextOf(input)) = {} => node_out.value = None

C11_Witness ==
    /\ TextOf(input) = S_no_identifier
    /\ diagram_out.done /\ diagram_out.value = None
    /\ node_out.done /\ node_out.value = None

----------------------------------------------------------------------------
(* Properties of sample_uml_diagram, continued *)

NumResults == Cardinality({n \in 1..6 : StepResults[n] # Unset})

(* the panics of send().expect(..) and json().expect(..) *)
TransportPanics ==
    {Line(SendExpect[s], <<>>) : s \in DOMAIN SendExpect}
        \cup {Line("Invalid JSON response", <<>>)}

(* C12: a transport failure is fatal at each of the six steps, the two    *)
(* cleanup steps included: a request that gets no parsed response ends    *)
(* the run in Failed at that step and no later request is sent.           *)
C12_TransportFailureIsFatal ==
    /\ [][awaiting /\ StepResults' = StepResults =>
             state' = "Failed" /\ sent' = sent /\ panic' \in TransportPanics]_vars
    /\ [][(panic \in TransportPanics) => state' = "Failed" /\ sent' = sent]_vars
    /\ [](panic \in TransportPanics =>
             /\ state = "Failed"
             /\ Len(sent) = NumResults + 1
             /\ (Len(sent) <= 2 => \A i \in 1..Len(sent) : Name(sent[i]) # "create_diagram"))

C12_Witness ==
    /\ panic = Line("Failed to send delete_diagram request", <<>>)
    /\ state = "Failed"
    /\ result_delete_prev # Unset
    /\ Len(sent) = 2

Terminal == state \in {"Done", "Failed"}

(* C13: a run starts in CleanupPrevious and, every request in the end     *)
(* getting a response or a transport failure, reaches Done or Failed;     *)
(* Done and Failed are the only states without a next step.               *)
C13_RunsEndInDoneOrFailed ==
    /\ state = "CleanupPrevious"
    /\ <>Terminal
    /\ [](Terminal <=> ~ENABLED Next)

C13_Witness == state = "Done" /\ Len(sent) = 6 /\ ~awaiting

StepNames == <<"CleanupPrevious", "CleanupEmpty", "CreateDiagram",
               "CreateEntityA", "CreateEntityB", "CreateEdge">>

(* the number of lines printed before step n reads its response *)
LinesBefore == <<0, 1, 2, 3, 3, 4>>

(* the diagnostic of a failure at step n: the lines that step printed *)
(* and the panic message                                              *)
Diagnostic(n) == SubSeq(stdout, LinesBefore[n] + 1, Len(stdout)) \o <<panic>>

DiagnosticHolds(n, payload) ==
    \E i \in 1..Len(Diagnostic(n)) :
        \E j \in 1..Len(Diagnostic(n)[i].args) : Diagnostic(n)[i].args[j] = payload

(* the one step a panic message names, "none" when it names no step or *)
(* is the message of more than one step                                *)
StepNamedBy(fmt) ==
    CASE fmt \in {"No diagram creation text found", "Failed to extract diagramId from text"}
            -> "CreateDiagram"
      [] fmt = "Server returned error for create_edge" -> "CreateEdge"
      [] OTHER -> "none"

(* the run failed on the response of step n *)
FailedOnResponse(n) ==
    /\ state = "Failed"
    /\ panic \notin TransportPanics
    /\ NumResults = n

(* C14: when the run enters Failed at a non-cleanup step, the diagnostic  *)
(* names the failing step and holds the raw error payload or the          *)
(* malformed response that caused the failure.                            *)
C14_DiagnosticNamesStepAndPayload ==
    \A n \in NonCleanup :
        FailedOnResponse(n) =>
            /\ StepNamedBy(panic.fmt) = StepNames[n]
            /\ HasError(StepResults[n]) =>
                  DiagnosticHolds(n, Get(StepResults[n], "error")[1])
            /\ Malformed(StepResults[n]) => DiagnosticHolds(n, StepResults[n])


(* C15: on a Success at CreateDiagram, CreateEntityA or CreateEntityB the *)
(* identifier extracted from that response's text is the value stored,    *)
(* and every later request carries it: both add_uml_class requests and    *)
(* the create_edge request carry the diagramId extracted from the         *)
(* create_diagram response, and create_edge the two stored class ids.     *)
C15_StoredIdsAreCarried ==
    LET d == DiagramIdIn(result)
        c1 == NodeIdIn(result1)
        c2 == NodeIdIn(result2)
    IN /\ IsSuccess(result) /\ d # None => diagram_id = d
       /\ IsSuccess(result1) /\ c1 # None => class1_id = c1
       /\ IsSuccess(result2) /\ c2 # None => class2_id = c2
       /\ \A i \in 4..Len(sent) : Some(Args(sent[i]).diagramId) = d
       /\ Len(sent) = 6 =>
             /\ Some(Args(sent[6]).sourceId) = c1
             /\ Some(Args(sent[6]).targetId) = c2

C15_Witness ==
    /\ Len(sent) = 6
    /\ diagram_id = Some(<<"d", "1">>)
    /\ class1_id = Some(<<"b", "1">>)
    /\ class2_id = Some(<<"a", "1">>)
    /\ Args(sent[4]).diagramId = <<"d", "1">>
    /\ Args(sent[5]).diagramId = <<"d", "1">>
    /\ Args(sent[6]).diagramId = <<"d", "1">>


(* C16: execution is sequential: at most one request is unanswered at any *)
(* moment, and the request of step k+1 goes out only after the response   *)
(* of step k has been received and interpreted.                           *)
C16_OneRequestAtATime ==
    /\ [](Len(sent) - NumResults \in {0, 1})
    /\ [](awaiting => Len(sent) = NumResults + 1)
    /\ [](\A k \in 1..5 : Len(sent) >= k + 1 => StepResults[k] # Unset)
    /\ [][sent' # sent => ~awaiting /\ Len(sent) = NumResults /\ awaiting']_vars

C16_Witness == awaiting /\ Len(sent) = 5 /\ NumResults = 4


FirstOf(S) == CHOOSE p \in S : \A q \in S : p <= q
(* the token that starts at position from: the characters up to the *)
(* first one that is no hexadecimal digit or hyphen                 *)
TokenFrom(text, from) ==
    LET n == CHOOSE n \in 1..(Len(text) - from + 1) :
                 /\ \A j \in 0..(n - 1) : text[from + j] \in LowerHexHyphen
                 /\ (from + n > Len(text) \/ text[from + n] \notin LowerHexHyphen)
    IN SubSeq(text, from, from + n - 1)
FirstNodeToken(text) ==
    TokenFrom(text, FirstOf(NodeOccurrences(text)) + Len(S_ID))
FirstDiagramToken(text) ==
    LET i == FirstOf(DiagramOccurrences(text))
    IN TokenFrom(text, i + (IF OccursAt(text, i, S_diagram_ID)
                             THEN Len(S_diagram_ID) ELSE Len(S_with_ID)))

(* C17: matching is first-occurrence: for a text where the pattern matches *)
(* in several places, extract_node_id and extract_diagram_id return the    *)
(* token of the leftmost occurrence, never a later one and never more than *)
(* one token.                                                              *)
C17_FirstOccurrenceOnly ==
    LET text == TextOf(input)
    IN /\ node_out.done /\ Cardinality(NodeOccurrences(text)) >= 2
          => node_out.value = Some(FirstNodeToken(text))
       /\ diagram_out.done /\ Cardinality(DiagramOccurrences(text)) >= 2
          => diagram_out.value = Some(FirstDiagramToken(text))

C17_Witness ==
    /\ input.lead = S_with_ID \o <<"f", " ">>
    /\ input.marker = S_with_ID
    /\ input.token = <<"a">>
    /\ Cardinality(DiagramOccurrences(TextOf(input))) >= 2
    /\ node_out = [done |-> TRUE, value |-> Some(<<"f">>)]
    /\ diagram_out = [done |-> TRUE, value |-> Some(<<"f">>)]


DiagramMarkers == {S_diagram_ID, S_with_ID}
NodeMarkers == {S_ID}
(* v stands in text right after one of the markers and is whole: the     *)
(* character after it, if any, is no lower-case hexadecimal digit, hyphen *)
FollowsMarker(text, markers, v) ==
    \E lit \in markers : \E i \in 1..Len(text) :
        LET from == i + Len(lit)
            to == from + Len(v) - 1
        IN /\ to <= Len(text)
           /\ SubSeq(text, i, from - 1) = lit
           /\ SubSeq(text, from, to) = v
           /\ (to = Len(text) \/ text[to + 1] \notin LowerHexHyphen)
IdShape(opt, src, markers) ==
    opt # None =>
        /\ IsToken(opt[1], HexHyphen)
        /\ src # None
        /\ FollowsMarker(src[1], markers, opt[1])

C19_DoneMeansAllSucceeded ==
    state = "Done" =>
        /\ \A n \in NonCleanup : IsSuccess(StepResults[n])
        /\ Len(sent) = 6
        /\ diagram_id # None /\ class1_id # None /\ class2_id # None


Context == <<diagram_id, class1_id, class2_id>>
(* the field changes in this step only from absent to present, and only *)
(* in the step from to next                                             *)
WrittenOnlyBy(old, new, from, next) ==
    new # old => /\ old = None /\ new # None
                 /\ state = from /\ state' = next

(* C20: the workflow context is write-once and step-local: each of the    *)
(* diagram identifier and the two entity identifiers is written at most   *)
(* once, only by its own step, and never changed or cleared afterwards;   *)
(* the cleanup steps, the CreateEdge step and any step that ends in       *)
(* Failed leave all three unchanged.                                      *)
C20_ContextWriteOnceStepLocal ==
    [][/\ WrittenOnlyBy(diagram_id, diagram_id', "CreateDiagram", "CreateEntityA")
       /\ WrittenOnlyBy(class1_id, class1_id', "CreateEntityA", "CreateEntityB")
       /\ WrittenOnlyBy(class2_id, class2_id', "CreateEntityB", "CreateEdge")
       /\ (state \in {"CleanupPrevious", "CleanupEmpty", "CreateEdge", "Done", "Failed"}
           \/ state' = "Failed") => Context' = Context]_vars

C20_Witness ==
    /\ state = "Failed" /\ Len(sent) = 6 /\ result3 # Unset
    /\ diagram_id = DiagramIdIn(result) /\ diagram_id # None
    /\ class1_id = NodeIdIn(result1) /\ class1_id # None
    /\ class2_id = NodeIdIn(result2) /\ class2_id # None /\ class2_id # class1_id


----------------------------------------------------------------------------
(* Two runs of sample_uml_diagram side by side.  A run's state is the     *)
(* tuple wfvars; twin holds the state of the run that is not stepping.    *)
(* The runs advance in turn, one statement each; the run that steps       *)
(* second gets, for each call from create_diagram on, the outcome the     *)
(* first one got, and no delete_diagram call fails in transport.  One of  *)
(* the two is the reference run, whose delete_diagram calls both return   *)
(* the plain success response: two runs that each end as the reference    *)
(* run with their later outcomes does end as each other.                  *)

StateOf(w) == w[1]
SentOf(w) == w[3]
PanicOf(w) == w[14]
(* the statements a run has executed: requests sent, responses read, and *)
(* the failed send or parse that ended it                                *)
StepsOf(w) ==
    Len(SentOf(w)) + Cardinality({n \in 1..6 : w[3 + n] # Unset})
        + (IF PanicOf(w) \in TransportPanics THEN 1 ELSE 0)
(* the outcome of the run's n-th call: the parsed response, the panic of *)
(* a failed send or parse, Unset while there is none                     *)
OutcomeOf(w, n) ==
    IF w[3 + n] # Unset THEN w[3 + n]
    ELSE IF PanicOf(w) \in TransportPanics /\ Len(SentOf(w)) = n THEN PanicOf(w)
    ELSE Unset
CleanupTransportFailure(w) == \E n \in 1..2 : OutcomeOf(w, n) \in TransportPanics
(* the two runs' outcomes of the calls after the cleanup agree as far as *)
(* both have them                                                        *)
Compatible(w1, w2) ==
    \A n \in NonCleanup :
        IF OutcomeOf(w1, n) = Unset THEN TRUE
        ELSE IF OutcomeOf(w2, n) = Unset THEN TRUE
        ELSE OutcomeOf(w1, n) = OutcomeOf(w2, n)
(* both delete_diagram responses of the run, as far as it has them, are *)
(* the plain success response                                           *)
IsReference(w) == \A n \in 1..2 : w[3 + n] \in {Unset, Success(S_no_identifier)}
Followed(w1, w2) ==
    /\ Compatible(w1, w2)
    /\ ~CleanupTransportFailure(w1)
    /\ IF IsReference(w1) THEN TRUE ELSE IsReference(w2)

(* the other run takes its turn *)
Swap ==
    /\ StepsOf(wfvars) > StepsOf(twin)
    /\ twin' = wfvars
    /\ state' = twin[1]
    /\ awaiting' = twin[2]
    /\ sent' = twin[3]
    /\ result_delete_prev' = twin[4]
    /\ result_delete_empty' = twin[5]
    /\ result' = twin[6]
    /\ result1' = twin[7]
    /\ result2' = twin[8]
    /\ result3' = twin[9]
    /\ diagram_id' = twin[10]
    /\ class1_id' = twin[11]
    /\ class2_id' = twin[12]
    /\ stdout' = twin[13]
    /\ panic' = twin[14]
    /\ UNCHANGED <<exvars, dbvars>>

TwinStep ==
    /\ StepsOf(wfvars) <= StepsOf(twin)
    /\ Next
    /\ Followed(wfvars', twin)

TwinInit == WfInit /\ ExIdle /\ twin = wfvars /\ DbIdle

TwinNext ==
    \/ TwinStep
    \/ Swap

TwinSpec == TwinInit /\ [][TwinNext]_vars


(* C21: the content of the cleanup responses does not influence the rest *)
(* of the run: two runs that get different responses (no transport       *)
(* failure) to the two delete_diagram calls and the same outcome of      *)
(* every later call have, after the same number of statements, sent the  *)
(* same sequence of requests (tools, arguments, request ids), consumed   *)
(* the same outcomes, and are in the same state, Done or Failed included. *)
C21_CleanupContentDoesNotInfluence ==
    StepsOf(wfvars) = StepsOf(twin) =>
        /\ \A n \in NonCleanup : OutcomeOf(wfvars, n) = OutcomeOf(twin, n)
        /\ sent = SentOf(twin)
        /\ state = StateOf(twin)
        /\ awaiting = twin[2]

C21_Witness ==
    /\ state = "Done" /\ StateOf(twin) = "Done"
    /\ Len(sent) = 6 /\ sent = SentOf(twin)
    /\ result_delete_prev = ServerError /\ twin[4] = Success(S_no_identifier)
    /\ result_delete_empty = JNull /\ twin[5] = Success(S_no_identifier)
    /\ class1_id # class2_id


----------------------------------------------------------------------------
(* The two classifications applied to a DatabaseError value. *)

ErrorInit ==
    /\ WfInit /\ ExIdle /\ twin = NoTwin
    /\ self \in DatabaseError
    /\ is_retryable_out = NotAsked
    /\ is_connection_error_out = NotAsked

CallIsRetryable ==
    /\ ~is_retryable_out.done
    /\ is_retryable_out' = [done |-> TRUE, value |-> is_retryable(self)]
    /\ UNCHANGED <<self, is_connection_error_out, wfvars, exvars, twin>>

CallIsConnectionError ==
    /\ ~is_connection_error_out.done
    /\ is_connection_error_out' = [done |-> TRUE, value |-> is_connection_error(self)]
    /\ UNCHANGED <<self, is_retryable_out, wfvars, exvars, twin>>

ErrorNext ==
    \/ CallIsRetryable
    \/ CallIsConnectionError

ErrorSpec == ErrorInit /\ [][ErrorNext]_vars

(* C22: is_retryable returns true exactly for ConnectionTimeout,          *)
(* QueryTimeout and DatabaseUnavailable and false for every other variant *)
(* (ConnectionFailed, QueryFailed, InvalidDataFormat and TransactionFailed *)
(* among them); is_connection_error returns true exactly for              *)
(* ConnectionFailed, ConnectionTimeout and DatabaseUnavailable.           *)
C22_ErrorClassification ==
    /\ is_retryable_out.done =>
          /\ is_retryable_out.value <=>
                \/ self.variant = "ConnectionTimeout"
                \/ self.variant = "QueryTimeout"
                \/ self.variant = "DatabaseUnavailable"
          /\ self.variant \in {"ConnectionFailed", "QueryFailed",
                               "InvalidDataFormat", "TransactionFailed"}
                => is_retryable_out.value = FALSE
    /\ is_connection_error_out.done =>
          (is_connection_error_out.value <=>
                \/ self.variant = "ConnectionFailed"
                \/ self.variant = "ConnectionTimeout"
                \/ self.variant = "DatabaseUnavailable")

C22_Witness ==
    /\ self.variant = "ConnectionFailed"
    /\ is_retryable_out = [done |-> TRUE, value |-> FALSE]
    /\ is_connection_error_out = [done |-> TRUE, value |-> TRUE]

====
